---- MODULE Spec2Model ----
(***************************************************************************)
(* Model of the doc compiler of rust-handbook (src/compile.rs, src/lib.rs):*)
(* compile() reads an annotated source file, groups its lines into         *)
(* DocComment / Comment / Code sections, format_code() normalises the Code *)
(* sections, and Doc::write_to_file() serialises the sections.             *)
(*                                                                         *)
(* A Rust String / &str is modelled as a sequence of one-character         *)
(* strings, so that starts_with, strip_prefix, trim, trim_end and lines()  *)
(* are computed character by character.                                    *)
(***************************************************************************)
EXTENDS Integers, Sequences, FiniteSets, TLC

VARIABLES
    pc,          \* position in compile_docs / compile / write_to_file
    result,      \* how the attempt ended: [kind, at, msg]
    dirExists,   \* whether the parent directory of the output path exists
    disk,        \* the output files on disk, by path: each [exists, data]
    doc,         \* compile_docs: which of its documents is being handled
    s,           \* compile: the String read from the input file
    lines,       \* compile: what the Peekable<Lines> iterator still holds
    sections,    \* compile / Doc: the Vec<Section>; each [tag, lines, orig]
    ls,          \* parse_*: the Vec<String> being accumulated
    raw,         \* parse_*: the lines consumed into ls, before stripping
    fi,          \* compile: position of the iter_mut() loop over sections
    i,           \* format_code: the index i (0-based, as in the source)
    prev_empty,  \* format_code: prev_empty
    started,     \* format_code: started
    si,          \* write_to_file: position of the loop over sections
    li           \* write_to_file: position of the loop over a section's lines

vars == <<pc, result, dirExists, disk, doc, s, lines, sections, ls, raw,
          fi, i, prev_empty, started, si, li>>

----------------------------------------------------------------------------
(* Bounds of the model.                                                    *)

MaxLines == 3        \* input files hold at most this many lines
MaxCodeLines == 5    \* SpecFmt: a Code section holds at most this many lines
MaxDocLines == 2     \* SpecDocs: each input file holds at most this many lines

----------------------------------------------------------------------------
(* Strings.                                                                *)

DocMarker == <<"/", "/", "/">>
CommentMarker == <<"/", "/", "t">>
\* the fence character (a grave accent in the source; the lexer of TLA+ has no
\* string for it, so "~" stands for it here and nowhere else)
BT == "~"
FenceOpen == <<BT, BT, BT, "r", "u", "s", "t">>
FenceClose == <<BT, BT, BT>>
LF == "\n"
CR == "\r"

\* char::is_whitespace, restricted to the characters the model uses
IsWhitespace(c) == c \in {" ", "\t", "\n", "\r"}

\* str::starts_with
StartsWith(l, p) == Len(l) >= Len(p) /\ SubSeq(l, 1, Len(p)) = p

\* str::strip_prefix(p).unwrap_or(l)
StripPrefixOr(l, p) == IF StartsWith(l, p) THEN SubSeq(l, Len(p) + 1, Len(l)) ELSE l

RECURSIVE TrimEnd(_)
\* str::trim_end
TrimEnd(l) ==
    IF l # <<>> /\ IsWhitespace(l[Len(l)]) THEN TrimEnd(SubSeq(l, 1, Len(l) - 1)) ELSE l

RECURSIVE TrimStart(_)
\* str::trim_start
TrimStart(l) ==
    IF l # <<>> /\ IsWhitespace(Head(l)) THEN TrimStart(Tail(l)) ELSE l

\* str::trim
Trim(l) == TrimStart(TrimEnd(l))

\* the "\r" that str::lines strips before a "\n"
StripCR(l) == IF l # <<>> /\ l[Len(l)] = CR THEN SubSeq(l, 1, Len(l) - 1) ELSE l

RECURSIVE SplitLines(_, _)
SplitLines(rest, cur) ==
    IF rest = <<>> THEN (IF cur = <<>> THEN <<>> ELSE <<cur>>)
    ELSE IF Head(rest) = LF THEN <<StripCR(cur)>> \o SplitLines(Tail(rest), <<>>)
    ELSE SplitLines(Tail(rest), Append(cur, Head(rest)))

\* str::lines: split at "\n" (or "\r\n"); the final line ending is optional
Lines(text) == SplitLines(text, <<>>)

RECURSIVE Flatten(_)
\* concatenation of a sequence of sequences
Flatten(ss) == IF ss = <<>> THEN <<>> ELSE Head(ss) \o Flatten(Tail(ss))

----------------------------------------------------------------------------
(* Inputs: the lines an input file is made of.                             *)

Hello == <<"H", "e", "l", "l", "o">>
LDoc == DocMarker \o <<" ", "N", " ">>             \* "/// N "
LDocBare == DocMarker                              \* "///"
LCommentHello == CommentMarker \o <<" ", " ", " ">> \o Hello   \* "//t   Hello"
LComment == CommentMarker \o <<" ", "x", " ">>     \* "//t x "
LIndented == <<" ">> \o DocMarker                  \* " ///"
LEmpty == <<>>                                     \* ""
LBlank == <<" ">>                                  \* " "
LCode == <<"x">>                                   \* "x"

LinePool == {LDoc, LDocBare, LCommentHello, LComment, LIndented, LEmpty, LBlank, LCode}

Foo == <<"f", "o", "o">>
Bar == <<"b", "a", "r">>
CodePool == {LEmpty, LBlank, Foo, Bar}

SeqsUpTo(S, n) == UNION {[1..k -> S] : k \in 0..n}

\* the text of a file holding the lines ll, each ended by "\n"
Unlines(ll) == Flatten([k \in 1..Len(ll) |-> Append(ll[k], LF)])

\* the files of up to n lines of pool, the last line ending optional
TextsOf(pool, n) ==
    LET full == {Unlines(ll) : ll \in SeqsUpTo(pool, n)}
    IN  full \cup {SubSeq(t, 1, Len(t) - 1) : t \in full \ {<<>>}}

\* the input files of one attempt
InputTexts == TextsOf(LinePool, MaxLines)

\* the input files of compile_docs
DocPool == {LDoc, LCommentHello, LCode, LEmpty}
DocTexts == TextsOf(DocPool, MaxDocLines)

----------------------------------------------------------------------------
(* The file system and the outcome of an attempt.                          *)

\* what an output file left by an earlier run holds
StaleData == <<"#", LF>>

Absent == [exists |-> FALSE, data |-> <<>>]
File(d) == [exists |-> TRUE, data |-> d]

\* compile_docs handles two documents
NumDocs == 2

\* the path compile_docs passes to compile for its d-th document
InPath(d) == IF d = 1 THEN "./src/chapters/closures.rs" ELSE "./src/chapters/traits.rs"

\* OutPath with the path of the first document written for every document
OutPathSame(d) == "./docs/closures.md"

\* the path compile_docs passes to write_to_file for its d-th document
OutPath(d) == IF d = 1 THEN "./docs/closures.md" ELSE "./docs/traits.md"

OutPaths == {OutPath(d) : d \in 1..NumDocs}

\* the file at the path write_to_file was called with
outFile == disk[OutPath(doc)]

\* the file at the path write_to_file was called with becomes f
WriteOut(f) == disk' = [disk EXCEPT ![OutPath(doc)] = f]

NoResult == [kind |-> "None", at |-> "none", msg |-> ""]
\* Err(e.to_string()) of a failed file system call
IoErr(where) == [kind |-> "Err", at |-> where, msg |-> "io error"]
\* Err("empty ...") of a parser
ParseErr(m) == [kind |-> "Err", at |-> "parse", msg |-> m]
\* the panic of Result::unwrap on an Err
Panicked(where) == [kind |-> "Panic", at |-> where, msg |-> "called Result::unwrap() on an Err value"]
OkResult == [kind |-> "Ok", at |-> "none", msg |-> ""]

Section(t, l, o) == [tag |-> t, lines |-> l, orig |-> o]

----------------------------------------------------------------------------
(* The line classifier, as each place of the source writes it.             *)

\* CompileTag with the markers looked for after leading whitespace
CompileTagTrimmed(line) ==
    IF StartsWith(TrimStart(line), DocMarker) THEN "DocComment"
    ELSE IF StartsWith(TrimStart(line), CommentMarker) THEN "Comment"
    ELSE "Code"

\* compile: the if / else if / else chain that picks the parser
CompileTag(line) ==
    IF StartsWith(line, DocMarker) THEN "DocComment"
    ELSE IF StartsWith(line, CommentMarker) THEN "Comment"
    ELSE "Code"

\* parse_doc_comment: the guard of Some(l) if l.starts_with("///")
DocContinues(l) == StartsWith(l, DocMarker)

\* parse_comment: the guard of Some(l) if l.starts_with("//t")
CommentContinues(l) == StartsWith(l, CommentMarker)

\* CodeContinues with the markers looked for after leading whitespace
CodeContinuesTrimmed(l) ==
    IF StartsWith(TrimStart(l), CommentMarker) THEN FALSE
    ELSE IF StartsWith(TrimStart(l), DocMarker) THEN FALSE
    ELSE TRUE

\* parse_code: neither break arm matches, so Some(_) => lines.next()
CodeContinues(l) ==
    IF StartsWith(l, CommentMarker) THEN FALSE
    ELSE IF StartsWith(l, DocMarker) THEN FALSE
    ELSE TRUE

\* DocStrip with the marker stripped as parse_comment strips its marker
DocStripMarker(line) == Trim(StripPrefixOr(line, DocMarker))

\* parse_doc_comment: what is pushed for a consumed line
DocStrip(line) == Trim(line)

\* CommentStrip with trim in place of strip_prefix(" ") and trim_end
CommentStripTrim(line) == Trim(StripPrefixOr(line, CommentMarker))

\* parse_comment: what is pushed for a consumed line
CommentStrip(line) ==
    LET trimmed == StripPrefixOr(line, CommentMarker)
    IN  TrimEnd(StripPrefixOr(trimmed, <<" ">>))

\* parse_code: what is pushed for a consumed line
CodeStrip(line) == line

----------------------------------------------------------------------------
(* compile(): open, read, and the section-building loop.                   *)

Init ==
    /\ pc = "open"
    /\ result = NoResult
    /\ dirExists \in BOOLEAN
    /\ doc = 1
    /\ \E f \in (IF dirExists THEN {Absent, File(StaleData)} ELSE {Absent}) :
         disk = [p \in OutPaths |-> IF p = OutPath(1) THEN f ELSE Absent]
    /\ s = <<>>
    /\ lines = <<>>
    /\ sections = <<>>
    /\ ls = <<>>
    /\ raw = <<>>
    /\ fi = 1
    /\ i = 0
    /\ prev_empty = FALSE
    /\ started = FALSE
    /\ si = 1
    /\ li = 1

\* fs::File::open(fp).map_err(|e| e.to_string())?
Open ==
    /\ pc = "open"
    /\ \E ok \in BOOLEAN :
         IF ok THEN pc' = "read" /\ result' = result
         ELSE pc' = "done" /\ result' = IoErr("open")
    /\ UNCHANGED <<dirExists, disk, doc, s, lines, sections, ls, raw,
                   fi, i, prev_empty, started, si, li>>

\* f.read_to_string(&mut s).unwrap(); s.lines().peekable(), the file holding
\* one of texts
ReadFrom(texts) ==
    /\ pc = "read"
    /\ \/ \E text \in texts :
            /\ s' = text
            /\ lines' = Lines(text)
            /\ pc' = "loop"
            /\ result' = result
       \/ /\ pc' = "done"
          /\ result' = Panicked("read")
          /\ UNCHANGED <<s, lines>>
    /\ UNCHANGED <<dirExists, disk, doc, sections, ls, raw,
                   fi, i, prev_empty, started, si, li>>

Read == ReadFrom(InputTexts)

\* the name of the parser compile calls for a tag
ParserOf(tag) ==
    CASE tag = "DocComment" -> "parse_doc_comment"
      [] tag = "Comment" -> "parse_comment"
      [] OTHER -> "parse_code"

\* CompileLoop with lines.next() in place of lines.peek(): the line is consumed
CompileLoopNext ==
    /\ pc = "loop"
    /\ IF lines = <<>>
       THEN pc' = "format" /\ fi' = 1 /\ lines' = lines
       ELSE pc' = ParserOf(CompileTag(Head(lines))) /\ fi' = fi /\ lines' = Tail(lines)
    /\ ls' = <<>>
    /\ raw' = <<>>
    /\ UNCHANGED <<result, dirExists, disk, doc, s, sections,
                   i, prev_empty, started, si, li>>

\* the head of the loop of compile: lines.peek(), then the choice of the parser
CompileLoop ==
    /\ pc = "loop"
    /\ IF lines = <<>>
       THEN pc' = "format" /\ fi' = 1
       ELSE pc' = ParserOf(CompileTag(Head(lines))) /\ fi' = fi
    /\ ls' = <<>>
    /\ raw' = <<>>
    /\ UNCHANGED <<result, dirExists, disk, doc, s, lines, sections,
                   i, prev_empty, started, si, li>>

\* one turn of a parser's loop that takes the peeked line: lines.next(), ls.push
Consume(pushed) ==
    /\ ls' = Append(ls, pushed)
    /\ raw' = Append(raw, Head(lines))
    /\ lines' = Tail(lines)
    /\ UNCHANGED <<pc, result, sections>>

\* a parser's break and return, and compile's ? and sections.push(section)
Return(tag, msg) ==
    /\ IF ls = <<>>
       THEN pc' = "done" /\ result' = ParseErr(msg) /\ sections' = sections
       ELSE pc' = "loop" /\ result' = result
            /\ sections' = Append(sections, Section(tag, ls, raw))
    /\ UNCHANGED <<lines, ls, raw>>

ParseDocComment ==
    /\ pc = "parse_doc_comment"
    /\ IF lines # <<>> /\ DocContinues(Head(lines))
       THEN Consume(DocStrip(Head(lines)))
       ELSE Return("DocComment", "empty doc comment")
    /\ UNCHANGED <<dirExists, disk, doc, s, fi, i, prev_empty, started, si, li>>

\* ParseComment with an if in place of the loop: one line per call
ParseCommentOnce ==
    /\ pc = "parse_comment"
    /\ IF ls = <<>> /\ lines # <<>> /\ CommentContinues(Head(lines))
       THEN Consume(CommentStrip(Head(lines)))
       ELSE Return("Comment", "empty comment")
    /\ UNCHANGED <<dirExists, disk, doc, s, fi, i, prev_empty, started, si, li>>

ParseComment ==
    /\ pc = "parse_comment"
    /\ IF lines # <<>> /\ CommentContinues(Head(lines))
       THEN Consume(CommentStrip(Head(lines)))
       ELSE Return("Comment", "empty comment")
    /\ UNCHANGED <<dirExists, disk, doc, s, fi, i, prev_empty, started, si, li>>

ParseCode ==
    /\ pc = "parse_code"
    /\ IF lines # <<>> /\ CodeContinues(Head(lines))
       THEN Consume(CodeStrip(Head(lines)))
       ELSE Return("Code", "empty code")
    /\ UNCHANGED <<dirExists, disk, doc, s, fi, i, prev_empty, started, si, li>>

----------------------------------------------------------------------------
(* format_code() and the loop of compile that calls it.                    *)

\* IsEmptyLine without the trim
IsEmptyLineNoTrim(l) == l = <<>>

\* lines[i].trim().is_empty()
IsEmptyLine(l) == Trim(l) = <<>>

\* Vec::remove(i), i counted from 0
Remove(v, k) == SubSeq(v, 1, k) \o SubSeq(v, k + 2, Len(v))

\* if !lines.is_empty() { if lines.last().unwrap().is_empty() { lines.pop(); } }
PopEmptyLast(v) ==
    IF v # <<>> /\ v[Len(v)] = <<>> THEN SubSeq(v, 1, Len(v) - 1) ELSE v

\* if !lines.is_empty() { lines.insert(0, fence-open); lines.push(fence-close) }
Fence(v) == IF v # <<>> THEN <<FenceOpen>> \o v \o <<FenceClose>> ELSE v

\* for s in sections.iter_mut() { match s { Code => format_code, _ => {} } };
\* after the last section compile returns Ok(Doc) and the caller goes on
FormatSections ==
    /\ pc = "format"
    /\ IF fi > Len(sections)
       THEN pc' = "create" /\ UNCHANGED <<fi, i, prev_empty, started>>
       ELSE IF sections[fi].tag = "Code"
       THEN /\ pc' = "format_code"
            /\ i' = 0
            /\ prev_empty' = FALSE
            /\ started' = FALSE
            /\ fi' = fi
       ELSE /\ fi' = fi + 1
            /\ UNCHANGED <<pc, i, prev_empty, started>>
    /\ UNCHANGED <<result, dirExists, disk, doc, s, lines, sections, ls, raw, si, li>>

\* FormatCodeLoop with i += 1 after the second remove as well
FormatCodeLoopSkip ==
    /\ pc = "format_code"
    /\ i < Len(sections[fi].lines)
    /\ LET v == sections[fi].lines
           is_empty == IsEmptyLine(v[i + 1])
       IN  IF is_empty /\ ~started
           THEN /\ sections' = [sections EXCEPT ![fi].lines = Remove(v, i)]
                /\ UNCHANGED <<i, prev_empty, started>>
           ELSE /\ started' = TRUE
                /\ i' = i + 1
                /\ IF is_empty /\ prev_empty
                   THEN /\ sections' = [sections EXCEPT ![fi].lines = Remove(v, i)]
                        /\ UNCHANGED prev_empty
                   ELSE /\ prev_empty' = is_empty
                        /\ sections' = sections
    /\ UNCHANGED <<pc, result, dirExists, disk, doc, s, lines, ls, raw, fi, si, li>>

\* one turn of the while loop of format_code
FormatCodeLoop ==
    /\ pc = "format_code"
    /\ i < Len(sections[fi].lines)
    /\ LET v == sections[fi].lines
           is_empty == IsEmptyLine(v[i + 1])
       IN  IF is_empty /\ ~started
           THEN /\ sections' = [sections EXCEPT ![fi].lines = Remove(v, i)]
                /\ UNCHANGED <<i, prev_empty, started>>
           ELSE /\ started' = TRUE
                /\ IF is_empty /\ prev_empty
                   THEN /\ sections' = [sections EXCEPT ![fi].lines = Remove(v, i)]
                        /\ UNCHANGED <<i, prev_empty>>
                   ELSE /\ prev_empty' = is_empty
                        /\ i' = i + 1
                        /\ sections' = sections
    /\ UNCHANGED <<pc, result, dirExists, disk, doc, s, lines, ls, raw, fi, si, li>>

\* the end of format_code: the trailing line, the fences, the return
FormatCodeEnd ==
    /\ pc = "format_code"
    /\ i >= Len(sections[fi].lines)
    /\ sections' = [sections EXCEPT ![fi].lines = Fence(PopEmptyLast(sections[fi].lines))]
    /\ fi' = fi + 1
    /\ pc' = "format"
    /\ UNCHANGED <<result, dirExists, disk, doc, s, lines, ls, raw,
                   i, prev_empty, started, si, li>>

----------------------------------------------------------------------------
(* Doc::write_to_file().                                                   *)

\* where the loops of write_to_file stand before section k: past the last
\* section the function returns Ok(()); a section with no lines runs no write
\* of the inner loop
WriteGoto(k) ==
    /\ si' = k
    /\ li' = 1
    /\ IF k > Len(sections) THEN pc' = "done" /\ result' = OkResult
       ELSE IF sections[k].lines = <<>> THEN pc' = "write_sep" /\ result' = result
       ELSE pc' = "write_all" /\ result' = result

\* a failed call: map_err(|e| e.to_string())?
WriteFails ==
    /\ pc' = "done"
    /\ result' = IoErr("write")
    /\ UNCHANGED <<si, li>>

\* Create that makes the missing parent directory first
CreateWithParents ==
    /\ pc = "create"
    /\ \E ok \in BOOLEAN :
         IF ok
         THEN WriteOut(File(<<>>)) /\ WriteGoto(1)
         ELSE /\ pc' = "done"
              /\ result' = IoErr("create")
              /\ UNCHANGED <<disk, si, li>>
    /\ UNCHANGED <<dirExists, doc, s, lines, sections, ls, raw, fi, i, prev_empty, started>>

\* Create that opens the file without truncating it
CreateNoTruncate ==
    /\ pc = "create"
    /\ \E ok \in {b \in BOOLEAN : dirExists \/ ~b} :
         IF ok
         THEN WriteOut(File(outFile.data)) /\ WriteGoto(1)
         ELSE /\ pc' = "done"
              /\ result' = IoErr("create")
              /\ UNCHANGED <<disk, si, li>>
    /\ UNCHANGED <<dirExists, doc, s, lines, sections, ls, raw, fi, i, prev_empty, started>>

\* fs::File::create(fp): creates or truncates; fails without the parent directory
Create ==
    /\ pc = "create"
    /\ \E ok \in {b \in BOOLEAN : dirExists \/ ~b} :
         IF ok
         THEN WriteOut(File(<<>>)) /\ WriteGoto(1)
         ELSE /\ pc' = "done"
              /\ result' = IoErr("create")
              /\ UNCHANGED <<disk, si, li>>
    /\ UNCHANGED <<dirExists, doc, s, lines, sections, ls, raw, fi, i, prev_empty, started>>

\* f.write_all(l.as_bytes()): an empty l makes no call and cannot fail; a
\* failure may come after part of l was written
WriteAll ==
    /\ pc = "write_all"
    /\ LET l == sections[si].lines[li]
       IN  \/ /\ WriteOut(File(outFile.data \o l))
              /\ pc' = "write_nl"
              /\ UNCHANGED <<result, si, li>>
           \/ \E n \in 0..(Len(l) - 1) :
                /\ WriteOut(File(outFile.data \o SubSeq(l, 1, n)))
                /\ WriteFails
    /\ UNCHANGED <<dirExists, doc, s, lines, sections, ls, raw, fi, i, prev_empty, started>>

\* f.write("\n".as_bytes()) after a line
WriteNewline ==
    /\ pc = "write_nl"
    /\ \/ /\ WriteOut(File(outFile.data \o <<LF>>))
          /\ result' = result
          /\ si' = si
          /\ IF li < Len(sections[si].lines)
             THEN li' = li + 1 /\ pc' = "write_all"
             ELSE li' = li /\ pc' = "write_sep"
       \/ /\ disk' = disk
          /\ WriteFails
    /\ UNCHANGED <<dirExists, doc, s, lines, sections, ls, raw, fi, i, prev_empty, started>>

\* WriteSeparator without the test of lines.is_empty()
WriteSeparatorAlways ==
    /\ pc = "write_sep"
    /\ \E ok \in BOOLEAN :
         IF ok
         THEN WriteOut(File(outFile.data \o <<LF>>)) /\ WriteGoto(si + 1)
         ELSE disk' = disk /\ WriteFails
    /\ UNCHANGED <<dirExists, doc, s, lines, sections, ls, raw, fi, i, prev_empty, started>>

\* if !lines.is_empty() { f.write("\n".as_bytes()) }, then the next section
WriteSeparator ==
    /\ pc = "write_sep"
    /\ IF sections[si].lines = <<>>
       THEN disk' = disk /\ WriteGoto(si + 1)
       ELSE \E ok \in BOOLEAN :
              IF ok
              THEN WriteOut(File(outFile.data \o <<LF>>)) /\ WriteGoto(si + 1)
              ELSE disk' = disk /\ WriteFails
    /\ UNCHANGED <<dirExists, doc, s, lines, sections, ls, raw, fi, i, prev_empty, started>>

----------------------------------------------------------------------------
(* Specifications.                                                         *)

\* one attempt of compile_docs: compile(fp)? then doc.write_to_file(out)?
Next ==
    \/ Open
    \/ Read
    \/ CompileLoop
    \/ ParseDocComment
    \/ ParseComment
    \/ ParseCode
    \/ FormatSections
    \/ FormatCodeLoop
    \/ FormatCodeEnd
    \/ Create
    \/ WriteAll
    \/ WriteNewline
    \/ WriteSeparator

Spec == Init /\ [][Next]_vars

\* the raw lines of the example of the formatter
ExampleCode == <<LEmpty, LEmpty, Foo, LEmpty, LEmpty, LEmpty, Bar, LEmpty>>

\* format_code on its own: the state compile is in once parse_code has built
\* one Code section from a file of code lines
InitFmt ==
    /\ pc = "format"
    /\ result = NoResult
    /\ dirExists = TRUE
    /\ doc = 1
    /\ disk = [p \in OutPaths |-> Absent]
    /\ \E cl \in (SeqsUpTo(CodePool, MaxCodeLines) \ {<<>>}) \cup {ExampleCode} :
         /\ s = Unlines(cl)
         /\ sections = <<Section("Code", cl, cl)>>
    /\ lines = <<>>
    /\ ls = <<>>
    /\ raw = <<>>
    /\ fi = 1
    /\ i = 0
    /\ prev_empty = FALSE
    /\ started = FALSE
    /\ si = 1
    /\ li = 1

NextFmt ==
    \/ FormatSections
    \/ FormatCodeLoop
    \/ FormatCodeEnd

SpecFmt == InitFmt /\ [][NextFmt]_vars

\* compile_docs: fs::create_dir_all("./docs"), then its documents in turn
InitDocs ==
    /\ pc = "mkdir"
    /\ result = NoResult
    /\ dirExists \in BOOLEAN
    /\ disk \in [OutPaths -> (IF dirExists THEN {Absent, File(StaleData)} ELSE {Absent})]
    /\ doc = 1
    /\ s = <<>>
    /\ lines = <<>>
    /\ sections = <<>>
    /\ ls = <<>>
    /\ raw = <<>>
    /\ fi = 1
    /\ i = 0
    /\ prev_empty = FALSE
    /\ started = FALSE
    /\ si = 1
    /\ li = 1

\* match fs::create_dir_all("./docs") { Err(e) => return Err(..), Ok(_) => () }
CreateDirAll ==
    /\ pc = "mkdir"
    /\ \E ok \in BOOLEAN :
         IF ok
         THEN dirExists' = TRUE /\ pc' = "open" /\ result' = result
         ELSE /\ pc' = "done"
              /\ result' = [kind |-> "Err", at |-> "mkdir", msg |-> "creating dir: io error"]
              /\ dirExists' = dirExists
    /\ UNCHANGED <<disk, doc, s, lines, sections, ls, raw,
                   fi, i, prev_empty, started, si, li>>

ReadDoc == ReadFrom(DocTexts)

\* doc.write_to_file(..)? returned Ok(()): the Doc is dropped and compile is
\* called for the next document
NextDoc ==
    /\ pc = "done"
    /\ result.kind = "Ok"
    /\ doc < NumDocs
    /\ doc' = doc + 1
    /\ pc' = "open"
    /\ result' = NoResult
    /\ s' = <<>>
    /\ lines' = <<>>
    /\ sections' = <<>>
    /\ ls' = <<>>
    /\ raw' = <<>>
    /\ fi' = 1
    /\ i' = 0
    /\ prev_empty' = FALSE
    /\ started' = FALSE
    /\ si' = 1
    /\ li' = 1
    /\ UNCHANGED <<dirExists, disk>>

NextDocs ==
    \/ CreateDirAll
    \/ Open
    \/ ReadDoc
    \/ CompileLoop
    \/ ParseDocComment
    \/ ParseComment
    \/ ParseCode
    \/ FormatSections
    \/ FormatCodeLoop
    \/ FormatCodeEnd
    \/ Create
    \/ WriteAll
    \/ WriteNewline
    \/ WriteSeparator
    \/ NextDoc

SpecDocs == InitDocs /\ [][NextDocs]_vars

----------------------------------------------------------------------------
(* Vocabulary of the properties.                                           *)

\* the input line sequence of the file that was read
InputLines == Lines(s)

\* the original lines of the sections, in Document order
OrigLines == Flatten([k \in 1..Len(sections) |-> sections[k].orig])

\* the section-building loop has ended without an error
Built ==
    \/ pc \in {"format", "format_code", "create", "write_all", "write_nl", "write_sep"}
    \/ pc = "done" /\ result.at \in {"none", "create", "write"}

\* format_code has run on every Code section: compile has returned Ok(Doc)
Compiled ==
    \/ pc \in {"create", "write_all", "write_nl", "write_sep"}
    \/ pc = "done" /\ result.at \in {"none", "create", "write"}

\* a line that is empty or holds whitespace only
IsBlank(l) == \A k \in 1..Len(l) : IsWhitespace(l[k])

\* the tag of a line by its first three characters, in the order of the rule
LiteralTag(l) ==
    IF Len(l) >= 3 /\ l[1] = "/" /\ l[2] = "/" /\ l[3] = "/" THEN "DocComment"
    ELSE IF Len(l) >= 3 /\ l[1] = "/" /\ l[2] = "/" /\ l[3] = "t" THEN "Comment"
    ELSE "Code"

IsPrefix(a, b) == Len(a) <= Len(b) /\ SubSeq(b, 1, Len(a)) = a

RECURSIVE Serialize(_)
\* the bytes of a Document: per section nothing if it has no lines, otherwise
\* each line and a "\n", then one more "\n"
Serialize(ss) ==
    IF ss = <<>> THEN <<>>
    ELSE (IF Head(ss).lines = <<>> THEN <<>> ELSE Unlines(Head(ss).lines) \o <<LF>>)
         \o Serialize(Tail(ss))

\* the number of blank lines (a "\n" right at the start or right after a "\n")
BlankLineCount(d) ==
    Cardinality({k \in 1..Len(d) : d[k] = LF /\ (k = 1 \/ d[k - 1] = LF)})

----------------------------------------------------------------------------
(* Properties of the section builder.                                      *)

\* C1: the section-building loop assigns every input line to exactly one
\* Section: while it runs, the original lines of the Sections built so far,
\* then those of the run being read, then the lines not yet consumed, are the
\* input line sequence; it ends without an error, and then the Sections'
\* original lines, concatenated in Document order, are the input line sequence.
C1_SectionsPartitionInput ==
    /\ pc = "loop" => OrigLines \o lines = InputLines
    /\ pc \in {"parse_doc_comment", "parse_comment", "parse_code"}
         => OrigLines \o raw \o lines = InputLines
    /\ Built => OrigLines = InputLines /\ lines = <<>>
    /\ result.at # "parse"
    /\ \A k \in 1..Len(sections) : Len(sections[k].orig) >= 1

\* a three-line input grouped into two Sections, one of them of two lines
C1_Witness ==
    /\ Built
    /\ Len(InputLines) = 3
    /\ Len(sections) = 2
    /\ Len(sections[1].orig) = 2

\* C2: no two Sections at adjacent positions have the same variant, at any
\* point of compile and in the Doc it returns, and every line a Section was
\* built from has the Section's tag: each Section is a maximal run of
\* same-tagged lines.
C2_AdjacentSectionsDiffer ==
    /\ \A k \in 1..(Len(sections) - 1) : sections[k].tag # sections[k + 1].tag
    /\ \A k \in 1..Len(sections) :
         \A j \in 1..Len(sections[k].orig) :
            CompileTag(sections[k].orig[j]) = sections[k].tag

\* a returned Doc of three Sections
C2_Witness == Compiled /\ Len(sections) = 3

\* C3: every line of the input is classified by its literal prefix, "///"
\* before "//t" before Code; the tag compile picks the parser by and the tags
\* the three parsers continue or stop a run by agree on it, and every line
\* lands in a Section of that tag.
C3_ClassifiedByLiteralPrefix ==
    /\ \A k \in 1..Len(InputLines) :
         LET l == InputLines[k]
             tag == LiteralTag(l)
         IN  /\ CompileTag(l) = tag
             /\ DocContinues(l) <=> tag = "DocComment"
             /\ CommentContinues(l) <=> tag = "Comment"
             /\ CodeContinues(l) <=> tag = "Code"
    /\ \A k \in 1..Len(sections) :
         \A j \in 1..Len(sections[k].orig) :
            LiteralTag(sections[k].orig[j]) = sections[k].tag

\* a line whose marker is preceded by whitespace sits in a Code section, next
\* to a DocComment and a Comment section
C3_Witness ==
    /\ Built
    /\ \E k \in 1..Len(sections) :
         sections[k].tag = "Code" /\ \E j \in 1..Len(sections[k].orig) :
            sections[k].orig[j] = LIndented
    /\ \E k \in 1..Len(sections) : sections[k].tag = "DocComment"
    /\ \E k \in 1..Len(sections) : sections[k].tag = "Comment"

----------------------------------------------------------------------------
(* Properties of the code formatter.                                       *)

\* a line sequence with every blank line written as the empty line
Canon(v) == [k \in 1..Len(v) |-> IF IsBlank(v[k]) THEN <<>> ELSE v[k]]

RECURSIVE DropLeadingBlank(_)
DropLeadingBlank(v) ==
    IF v # <<>> /\ IsBlank(Head(v)) THEN DropLeadingBlank(Tail(v)) ELSE v

RECURSIVE CollapseBlankRuns(_)
CollapseBlankRuns(v) ==
    IF v = <<>> THEN <<>>
    ELSE IF Len(v) >= 2 /\ IsBlank(v[1]) /\ IsBlank(v[2]) THEN CollapseBlankRuns(Tail(v))
    ELSE <<Head(v)>> \o CollapseBlankRuns(Tail(v))

DropOneTrailingBlank(v) ==
    IF v # <<>> /\ IsBlank(v[Len(v)]) THEN SubSeq(v, 1, Len(v) - 1) ELSE v

\* the lines between the fences as the rule states them: leading blank lines
\* dropped, runs of blank lines collapsed to one, one trailing blank line dropped
NormalisedBody(v) == DropOneTrailingBlank(CollapseBlankRuns(DropLeadingBlank(v)))

\* C4: once format_code has run on a Code section with a non-blank line, the
\* section is the fence-open line, then its original lines with the leading
\* blank lines dropped, every run of blank lines collapsed to one blank line
\* and one trailing blank line dropped (which blank line of a run is kept is
\* left open: blank lines are compared as blank), then the fence-close line;
\* the example of eight lines yields fence-open, foo, "", bar, fence-close.
C4_FormatCodeNormalises ==
    (pc = "create" /\ \E j \in 1..Len(sections[1].orig) : ~IsBlank(sections[1].orig[j]))
    => LET out == sections[1].lines
       IN  /\ Len(out) >= 3
           /\ out[1] = FenceOpen
           /\ out[Len(out)] = FenceClose
           /\ Canon(SubSeq(out, 2, Len(out) - 1)) = NormalisedBody(Canon(sections[1].orig))
           /\ sections[1].orig = ExampleCode
                => out = <<FenceOpen, Foo, LEmpty, Bar, FenceClose>>

\* a Code section all of whose original lines are blank
BlankCode(k) ==
    /\ sections[k].tag = "Code"
    /\ \A j \in 1..Len(sections[k].orig) : IsBlank(sections[k].orig[j])

\* format_code has run on section k, if it is a Code section
Formatted(k) == Compiled \/ (pc \in {"format", "format_code"} /\ fi > k)

\* C5: a Code section whose lines are all blank has an empty line list once
\* format_code has run on it, with no fence line, and no step of
\* write_to_file that stands at such a section changes the output file.
C5_BlankCodeEmitsNothing ==
    /\ [](\A k \in 1..Len(sections) :
            BlankCode(k) /\ Formatted(k) => sections[k].lines = <<>>)
    /\ [][(/\ pc \in {"write_all", "write_nl", "write_sep"}
           /\ si <= Len(sections)
           /\ BlankCode(si)) => outFile' = outFile]_vars

\* a Document written in full whose second of three Sections is a blank Code
\* section
C5_Witness ==
    /\ pc = "done"
    /\ result.kind = "Ok"
    /\ Len(sections) = 3
    /\ BlankCode(2)
    /\ outFile.data # <<>>

----------------------------------------------------------------------------
(* Properties of the document writer and of the whole attempt.             *)

\* C6: when write_to_file returns Ok, the output file holds exactly the
\* serialization of the Sections in Document order (nothing for a Section
\* without lines, otherwise each line and a "\n", then one more "\n"), so it
\* holds one blank separator line per Section with lines, beside the blank
\* lines that are lines of a Section.
C6_OutputIsSerialization ==
    result.kind = "Ok"
    => /\ outFile.exists
       /\ outFile.data = Serialize(sections)
       /\ BlankLineCount(outFile.data)
            = Cardinality({k \in 1..Len(sections) : sections[k].lines # <<>>})
              + Cardinality({<<k, j>> \in (1..Len(sections)) \X (1..(MaxLines + 2)) :
                               j <= Len(sections[k].lines) /\ sections[k].lines[j] = <<>>})

\* a Document written in full that has a Section without lines between two
\* Sections with lines
C6_Witness ==
    /\ result.kind = "Ok"
    /\ Len(sections) = 3
    /\ sections[2].lines = <<>>
    /\ sections[1].lines # <<>>
    /\ sections[3].lines # <<>>

\* the input is not empty and every line of it starts with "///"
AllDocLines ==
    /\ InputLines # <<>>
    /\ \A k \in 1..Len(InputLines) : StartsWith(InputLines[k], DocMarker)

\* l without its trailing whitespace
WithoutTrailingWhitespace(l) ==
    LET keep == {k \in 1..Len(l) : ~IsWhitespace(l[k])}
    IN  SubSeq(l, 1, IF keep = {} THEN 0 ELSE CHOOSE k \in keep : \A m \in keep : m <= k)

\* C7 as stated: a file of "///" lines compiles to one DocComment Section
\* and the output holds the input lines verbatim, each with a line break,
\* then one blank separator line.
C7_DocLinesVerbatim ==
    (result.kind = "Ok" /\ AllDocLines)
    => /\ Len(sections) = 1
       /\ sections[1].tag = "DocComment"
       /\ outFile.data = Unlines(InputLines) \o <<LF>>

\* C7 as amended: a file of "///" lines compiles to one DocComment Section
\* and the output holds the input lines with their marker and without their
\* trailing whitespace, each with a line break, then one blank separator line.
C7_DocLinesRightTrimmed ==
    (result.kind = "Ok" /\ AllDocLines)
    => /\ Len(sections) = 1
       /\ sections[1].tag = "DocComment"
       /\ outFile.data
            = Unlines([k \in 1..Len(InputLines) |-> WithoutTrailingWhitespace(InputLines[k])])
              \o <<LF>>

\* a written file of "///" lines, one with and one without trailing whitespace
C7_Witness ==
    /\ result.kind = "Ok"
    /\ AllDocLines
    /\ \E k \in 1..Len(InputLines) : InputLines[k] = LDoc
    /\ \E k \in 1..Len(InputLines) : InputLines[k] = LDocBare

\* the raw line "//t   Hello" was consumed by parse_comment as line j of
\* Section k
HelloAt(k, j) ==
    /\ sections[k].tag = "Comment"
    /\ j <= Len(sections[k].orig)
    /\ sections[k].orig[j] = LCommentHello

\* C8 as stated: the Comment line "//t   Hello" is stored as "Hello".
C8_HelloStored ==
    \A k \in 1..Len(sections) : \A j \in 1..MaxLines :
        HelloAt(k, j) => sections[k].lines[j] = Hello

\* C8 as amended: the Comment line "//t   Hello" is stored as "  Hello": the
\* marker and one space are removed, the two other spaces stay.
C8_HelloKeepsIndentation ==
    \A k \in 1..Len(sections) : \A j \in 1..MaxLines :
        HelloAt(k, j) => sections[k].lines[j] = <<" ", " ">> \o Hello

\* a Comment section that holds the line
C8_Witness == \E k \in 1..Len(sections) : \E j \in 1..MaxLines : HelloAt(k, j)

\* C9: every failure of a file system call (open, read, create, write) ends
\* the attempt with an Err value that carries a description.
C9_FailuresReturnErr ==
    (pc = "done" /\ result.at \in {"open", "read", "create", "write"})
    => result.kind = "Err" /\ result.msg # ""

\* the output file is as it was before the attempt
Untouched == outFile \in {Absent, File(StaleData)}

\* C10 as stated: when the attempt has ended, the output file holds the
\* complete serialization or was not written at all.
C10_NoPartialOutput ==
    pc = "done"
    => \/ outFile.exists /\ outFile.data = Serialize(sections)
       \/ Untouched
       \/ outFile.data = <<>>

\* C10 as amended: when the attempt has ended with Ok, the output file holds
\* the complete serialization; with a failure of open, read or create (or of
\* a parser) it is as it was; with a failure of a write it exists and holds
\* a proper prefix of the serialization: what was written is not rolled back.
C10_CompleteUntouchedOrPrefix ==
    pc = "done"
    => /\ result.kind = "Ok" => outFile = File(Serialize(sections))
       /\ result.at \in {"open", "read", "parse", "create"} => Untouched
       /\ result.at = "write"
            => /\ outFile.exists
               /\ IsPrefix(outFile.data, Serialize(sections))
               /\ outFile.data # Serialize(sections)
       /\ result.kind = "Ok" \/ result.at \in {"open", "read", "parse", "create", "write"}

\* an attempt ended by a failed write after part of the serialization was
\* written
C10_Witness ==
    /\ pc = "done"
    /\ result.at = "write"
    /\ outFile.data # <<>>
    /\ Len(sections) >= 2

----------------------------------------------------------------------------
(* Properties of compile_docs.                                             *)

\* C11: compile_docs handles its documents one after another: it moves to
\* the next document only from the end of an attempt that returned Ok, when
\* the output file of the document holds its complete serialization; and no
\* step, a failing one included, changes the output file of a document
\* handled before the current one.
C11_EarlierOutputsKept ==
    [][/\ doc' # doc
            => /\ doc' = doc + 1
               /\ pc = "done"
               /\ result.kind = "Ok"
               /\ disk[OutPath(doc)] = File(Serialize(sections))
               /\ disk' = disk
       /\ \A d \in 1..(doc - 1) : disk'[OutPath(d)] = disk[OutPath(d)]]_vars

\* the second document fails at a write while the output file of the first
\* holds its serialization
C11_Witness ==
    /\ doc = 2
    /\ pc = "done"
    /\ result.at = "write"
    /\ disk[OutPath(1)].exists
    /\ disk[OutPath(1)].data # <<>>
    /\ disk[OutPath(2)].data # <<>>

\* C12: when the parent directory of the output path does not exist, no
\* output file is ever created at the path and no write is reached, and
\* write_to_file, once called, returns an error from its create.
C12_NoParentDirectory ==
    ~dirExists
    => /\ outFile = Absent
       /\ pc \notin {"write_all", "write_nl", "write_sep"}
       /\ result.kind # "Ok"
       /\ (pc = "done" /\ result.at \notin {"open", "read", "parse"})
            => result.kind = "Err" /\ result.at = "create" /\ result.msg # ""

\* write_to_file was called on a Doc with Sections and returned its error
C12_Witness ==
    /\ ~dirExists
    /\ pc = "done"
    /\ result.at = "create"
    /\ Len(sections) >= 2
    /\ \E k \in 1..Len(sections) : sections[k].lines # <<>>

\* the guard by which the parser named by pc continues a run
Continues(l) ==
    CASE pc = "parse_doc_comment" -> DocContinues(l)
      [] pc = "parse_comment" -> CommentContinues(l)
      [] pc = "parse_code" -> CodeContinues(l)
      [] OTHER -> FALSE

\* format_code is running on section k
Formatting(k) == pc = "format_code" /\ fi = k

\* C13: no parser returns its empty-run error: a parser that has consumed
\* nothing yet finds the peeked line and takes it; every Section has at
\* least one line, as many as it was built from, until format_code runs on
\* it, and a Section without lines is a Code section that format_code has
\* emptied, all of whose original lines are blank.
C13_NoEmptyRun ==
    /\ result.at # "parse"
    /\ (pc \in {"parse_doc_comment", "parse_comment", "parse_code"} /\ ls = <<>>)
         => lines # <<>> /\ Continues(Head(lines))
    /\ \A k \in 1..Len(sections) :
         /\ Len(sections[k].orig) >= 1
         /\ ~(Formatted(k) \/ Formatting(k))
              => Len(sections[k].lines) = Len(sections[k].orig)
         /\ sections[k].lines = <<>> => (Formatted(k) \/ Formatting(k)) /\ BlankCode(k)

\* a returned Doc whose second of three Sections was emptied by format_code,
\* read from three lines
C13_Witness ==
    /\ Compiled
    /\ Len(sections) = 3
    /\ sections[2].lines = <<>>
    /\ sections[1].tag = "Comment"
    /\ sections[3].tag = "DocComment"

\* C14: in a Code section that format_code leaves with lines, the line right
\* after the fence-open line and the line right before the fence-close line
\* are not blank.
C14_NoBlankAtFenceEdges ==
    (pc = "create" /\ sections[1].lines # <<>>)
    => LET out == sections[1].lines
       IN  /\ Len(out) >= 3
           /\ ~IsBlank(out[2])
           /\ ~IsBlank(out[Len(out) - 1])

\* the rank of the section-building loop: three per line not yet consumed,
\* less at the head of the loop than inside a parser that has taken a line
BuildRank ==
    3 * Len(lines)
    + (IF pc = "loop" THEN 1
       ELSE IF pc \in {"parse_doc_comment", "parse_comment", "parse_code"} /\ ls # <<>> THEN 2
       ELSE 0)

\* C15: the loops of compile end. Every step of the section-building loop
\* lowers a rank that is bounded by the lines left, so that every turn of the
\* loop consumes at least one line; every turn of the loop of format_code
\* either removes one line and keeps i or keeps the lines and adds one to i;
\* i never passes the length of the lines it indexes, counted after each
\* removal; and no step before the end of the attempt is without a successor.
C15_LoopsEnd ==
    /\ [](pc = "format_code" => 0 <= i /\ i <= Len(sections[fi].lines))
    /\ [](pc # "done" => ENABLED Next)
    /\ [][(pc \in {"loop", "parse_doc_comment", "parse_comment", "parse_code"}
           /\ pc' # "done")
          => /\ BuildRank' < BuildRank
             /\ pc' = "loop" => Len(lines) + Len(raw) <= Len(lines') + Len(raw')
                                /\ Len(raw) >= 1]_vars
    /\ [][(pc = "format_code" /\ pc' = "format_code")
          => LET n == Len(sections[fi].lines)
                 m == Len(sections'[fi'].lines)
             IN  \/ m = n - 1 /\ i' = i
                 \/ m = n /\ i' = i + 1]_vars
    /\ [][(pc = "format_code" /\ pc' = "format") => fi' = fi + 1]_vars
    /\ [][(pc = "format" /\ pc' = "format") => fi' = fi + 1]_vars

\* format_code has removed a line from the middle of a section of three lines
\* and reached its end
C15_Witness ==
    /\ pc = "format_code"
    /\ i = 2
    /\ Len(sections[fi].lines) = 2
    /\ Len(sections[fi].orig) = 3
    /\ ~IsBlank(sections[fi].orig[1])

====
